---- MODULE Spec2Model ----
(***************************************************************************)
(* Model of src/expressions/subquery/Exists.ts: the Exists expression node *)
(* (getCypher) and its text rewrite (transformCypherQuery).                *)
(*                                                                         *)
(* Rendered text is a TLA+ string; the character at position i of s is     *)
(* SubSeq(s, i, i).  Every regular expression of the source is modelled by *)
(* an operator that computes what the JavaScript regex engine computes     *)
(* (leftmost match, greedy and lazy quantifiers, `.` excluding line        *)
(* terminators, `$` matching at the end of the input only).                *)
(***************************************************************************)
EXTENDS Integers, Sequences, FiniteSets, TLC

VARIABLES
    subQuery,        \* this.subQuery: the clause tree behind the node
    pc,              \* "constructed" | "rendered"
    subQueryStr,     \* getCypher: subQueryStr
    paddedSubQuery,  \* getCypher: paddedSubQuery
    threw,           \* the message transformCypherQuery threw, "" when none
    strippedMatch,   \* transformCypherQuery: strippedMatch
    whereGroup,      \* transformCypherQuery: whereMatch[1] ("" when no match)
    properties,      \* transformCypherQuery: properties
    injected,        \* transformCypherQuery: transformed after line 90
    transformed,     \* transformCypherQuery: the returned text
    result           \* what getCypher returned

vars == <<subQuery, pc, subQueryStr, paddedSubQuery, threw, strippedMatch,
          whereGroup, properties, injected, transformed, result>>

-----------------------------------------------------------------------------
(* Characters and character classes of the regular expressions.            *)

Char(s, i) == IF 1 <= i /\ i <= Len(s) THEN SubSeq(s, i, i) ELSE ""

From(s, i) == IF i <= Len(s) THEN SubSeq(s, i, Len(s)) ELSE ""

Upto(s, i) == IF i >= 1 THEN SubSeq(s, 1, i) ELSE ""

\* The backtick cannot be written inside a TLA+ string literal; in every
\* text of this model the character ~ stands for it.
Backtick == "~"

UpperLetters == "ABCDEFGHIJKLMNOPQRSTUVWXYZ"

LowerLetters == "abcdefghijklmnopqrstuvwxyz"

Digits == "0123456789"

CharsOf(s) == { SubSeq(s, i, i) : i \in 1..Len(s) }

\* \s, as far as the texts of this model go
WhiteSpace == {" ", "\t", "\n", "\r", "\f"}

\* the characters `.` does not match, as far as the texts of this model go
LineTerminators == {"\n", "\r"}

\* \w
WordChars == CharsOf(UpperLetters) \cup CharsOf(LowerLetters) \cup CharsOf(Digits) \cup {"_"}

\* canonicalisation of the /i flag
UpperOf ==
    [c \in CharsOf(LowerLetters) |->
        LET i == CHOOSE j \in 1..Len(LowerLetters) : SubSeq(LowerLetters, j, j) = c
        IN SubSeq(UpperLetters, i, i)]

ToUpper(c) == IF c \in DOMAIN UpperOf THEN UpperOf[c] ELSE c

\* the keyword kw (upper case) stands at position i of s, in any letter case
KeywordAt(s, i, kw) ==
    /\ i >= 1
    /\ i + Len(kw) - 1 <= Len(s)
    /\ \A k \in 1..Len(kw) : ToUpper(Char(s, i + k - 1)) = Char(kw, k)

\* first position >= i of s whose character is not in class (Len(s)+1 if none):
\* where a greedy class* starting at i stops
RECURSIVE SkipClass(_, _, _)
SkipClass(s, i, class) ==
    IF i > Len(s) \/ Char(s, i) \notin class THEN i
    ELSE SkipClass(s, i + 1, class)

\* the least number of a set of positions, 0 for the empty set
First(S) == IF S = {} THEN 0 ELSE CHOOSE x \in S : \A y \in S : x <= y

\* the greatest number of a set of positions, 0 for the empty set
Last(S) == IF S = {} THEN 0 ELSE CHOOSE x \in S : \A y \in S : x >= y

\* first position >= i of s holding character c (Len(s)+1 if none)
IndexOf(s, i, c) ==
    LET at == { j \in i..Len(s) : Char(s, j) = c }
    IN IF at = {} THEN Len(s) + 1 ELSE First(at)

HasLineTerminator(s) == \E i \in 1..Len(s) : Char(s, i) \in LineTerminators

-----------------------------------------------------------------------------
(* padBlock (src/utils/pad-block, not among the sources): one block-indent *)
(* prefix in front of every line.                                          *)

IndentPrefix == "\t"

RECURSIVE padBlock(_)
padBlock(block) ==
    LET nl == IndexOf(block, 1, "\n")
    IN IF nl > Len(block) THEN IndentPrefix \o block
       ELSE IndentPrefix \o Upto(block, nl) \o padBlock(From(block, nl + 1))

-----------------------------------------------------------------------------
(* transformCypherQuery, line 60: replace(/^\s*MATCH\s+/i, "")             *)

\* the keyword and what follows it removed, the leading white space kept
StripMatchKeywordOnly(cypherFragment) ==
    LET m == SkipClass(cypherFragment, 1, WhiteSpace)
    IN IF /\ KeywordAt(cypherFragment, m, "MATCH")
          /\ Char(cypherFragment, m + Len("MATCH")) \in WhiteSpace
       THEN Upto(cypherFragment, m - 1)
            \o From(cypherFragment, SkipClass(cypherFragment, m + Len("MATCH"), WhiteSpace))
       ELSE cypherFragment

StripMatch(cypherFragment) ==
    LET m == SkipClass(cypherFragment, 1, WhiteSpace)
    IN IF /\ KeywordAt(cypherFragment, m, "MATCH")
          /\ Char(cypherFragment, m + Len("MATCH")) \in WhiteSpace
       THEN From(cypherFragment, SkipClass(cypherFragment, m + Len("MATCH"), WhiteSpace))
       ELSE cypherFragment

-----------------------------------------------------------------------------
(* transformCypherQuery, lines 63-64: match(/WHERE\s+\(?(.*?)\)?$/i)       *)

\* The text left for \(?(.*?)\)?$ once WHERE\s+ has matched at position p.
\* \s+ is greedy; giving whitespace back never turns a failure into a match,
\* because what follows the whitespace has to reach the end of the input
\* without a line terminator either way.
WhereTail(s, p) == From(s, SkipClass(s, p + Len("WHERE"), WhiteSpace))

\* the regular expression matches with WHERE at position p
WhereMatchesAt(s, p) ==
    /\ KeywordAt(s, p, "WHERE")
    /\ Char(s, p + Len("WHERE")) \in WhiteSpace
    /\ ~HasLineTerminator(WhereTail(s, p))

\* index of the (leftmost) match, 0 when the result of match() is null
WhereIndex(s) == First({ p \in 1..Len(s) : WhereMatchesAt(s, p) })

\* the parentheses removed only as a pair around the whole tail
WhereCaptureWrapped(t) ==
    IF Char(t, 1) = "(" /\ Char(t, Len(t)) = ")" /\ Len(t) >= 2
    THEN SubSeq(t, 2, Len(t) - 1)
    ELSE t

\* capture group 1 on the tail t: \(? takes an opening parenthesis when one
\* is there, the lazy (.*?) stops as soon as \)?$ can match
WhereCapture(t) ==
    LET t1 == IF Char(t, 1) = "(" THEN From(t, 2) ELSE t
    IN IF Char(t1, Len(t1)) = ")" THEN Upto(t1, Len(t1) - 1) ELSE t1

\* whereMatch[1], "" when whereMatch is null
WhereGroup1(s) ==
    IF WhereIndex(s) = 0 THEN "" ELSE WhereCapture(WhereTail(s, WhereIndex(s)))

RECURSIVE TrimRight(_)
TrimRight(s) ==
    IF s # "" /\ Char(s, Len(s)) \in WhiteSpace THEN TrimRight(Upto(s, Len(s) - 1)) ELSE s

\* the clause removed together with the white space in front of it
RemoveWhereAndSpace(s) ==
    IF WhereIndex(s) = 0 THEN s ELSE TrimRight(Upto(s, WhereIndex(s) - 1))

\* line 89: replace(whereRegEx, ""); the match runs to the end of the input
RemoveWhere(s) ==
    IF WhereIndex(s) = 0 THEN s ELSE Upto(s, WhereIndex(s) - 1)

-----------------------------------------------------------------------------
(* line 70: split(/\s+AND\s+/i)                                            *)

\* /\s+AND\s+/i matches starting at position q
AndSepAt(s, q) ==
    LET a == SkipClass(s, q, WhiteSpace)
    IN /\ Char(s, q) \in WhiteSpace
       /\ KeywordAt(s, a, "AND")
       /\ Char(s, a + Len("AND")) \in WhiteSpace

AndSepEnd(s, q) == SkipClass(s, SkipClass(s, q, WhiteSpace) + Len("AND"), WhiteSpace)

RECURSIVE SplitAnd(_)
SplitAnd(s) ==
    LET q == First({ i \in 1..Len(s) : AndSepAt(s, i) })
    IN IF q = 0 THEN <<s>>
       ELSE <<Upto(s, q - 1)>> \o SplitAnd(From(s, AndSepEnd(s, q)))

(* line 71: split(/\s*=\s*/)                                               *)

\* /\s*=\s*/ matches starting at position q
EqSepAt(s, q) == Char(s, SkipClass(s, q, WhiteSpace)) = "="

EqSepEnd(s, q) == SkipClass(s, SkipClass(s, q, WhiteSpace) + 1, WhiteSpace)

RECURSIVE SplitEq(_)
SplitEq(s) ==
    LET q == First({ i \in 1..Len(s) : EqSepAt(s, i) })
    IN IF q = 0 THEN <<s>>
       ELSE <<Upto(s, q - 1)>> \o SplitEq(From(s, EqSepEnd(s, q)))

(* line 73: key.split(".").pop()                                           *)

\* the first segment in place of the last
FirstDotSegment(key) == Upto(key, IndexOf(key, 1, ".") - 1)

RECURSIVE LastDotSegment(_)
LastDotSegment(key) ==
    LET d == IndexOf(key, 1, ".")
    IN IF d > Len(key) THEN key ELSE LastDotSegment(From(key, d + 1))

(* lines 70-75: one condition text to its { [strippedKey]: value } object, *)
(* modelled as the sequence of its own keys and the value                  *)

Condition(condition) ==
    LET parts == SplitEq(condition)
        key == parts[1]
        value == IF Len(parts) >= 2 THEN parts[2] ELSE ""
    IN [keys |-> <<LastDotSegment(key)>>, value |-> value]

(* lines 78-84: one condition object to its entry of the properties text   *)

PropertyEntry(cond) ==
    IF Len(cond.keys) = 0 THEN ""
    ELSE cond.keys[1] \o ": " \o cond.value

(* line 85: join(", ")                                                     *)

RECURSIVE Join(_, _)
Join(parts, sep) ==
    IF Len(parts) = 0 THEN ""
    ELSE IF Len(parts) = 1 THEN parts[1]
    ELSE parts[1] \o sep \o Join(Tail(parts), sep)

(* lines 70-85                                                             *)

Properties(group1) ==
    LET conds == SplitAnd(group1)
    IN Join([i \in 1..Len(conds) |-> PropertyEntry(Condition(conds[i]))], ", ")

-----------------------------------------------------------------------------
(* line 90: replace(/:(\w+|`[^`]+`)\s*(?=\))/, `$& { ${properties} }`)      *)

\* end of capture group 1 when the regular expression matches with its colon
\* at position p, 0 when it does not match there.  \w+ and [^`]+ are greedy
\* and a shorter run is never followed by what the pattern wants next.
LabelEnd(s, p) ==
    LET w == SkipClass(s, p + 1, WordChars)
        b == IndexOf(s, p + 2, Backtick)
    IN IF p < 1 \/ Char(s, p) # ":" THEN 0
       ELSE IF w > p + 1
            THEN IF Char(s, SkipClass(s, w, WhiteSpace)) = ")" THEN w - 1 ELSE 0
       ELSE IF /\ Char(s, p + 1) = Backtick
               /\ b > p + 2
               /\ b <= Len(s)
               /\ Char(s, SkipClass(s, b + 1, WhiteSpace)) = ")"
            THEN b
       ELSE 0

\* index of the first match, 0 when there is none
\* the last match in place of the first
LastLabelIndex(s) == Last({ p \in 1..Len(s) : LabelEnd(s, p) > 0 })

LabelIndex(s) == First({ p \in 1..Len(s) : LabelEnd(s, p) > 0 })

\* the replacement text: $$, $&, $`, $' and $1 (the one capture group, also
\* written $01) are substitution patterns, any other text stands for itself
RECURSIVE GetSubstitution(_, _, _, _, _)
GetSubstitution(template, matched, before, after, group1) ==
    LET d == IndexOf(template, 1, "$")
        c == Char(template, d + 1)
        Rest(n) == GetSubstitution(From(template, d + n), matched, before, after, group1)
    IN IF d > Len(template) THEN template
       ELSE Upto(template, d - 1)
            \o (IF c = "$" THEN "$" \o Rest(2)
                ELSE IF c = "&" THEN matched \o Rest(2)
                ELSE IF c = Backtick THEN before \o Rest(2)
                ELSE IF c = "'" THEN after \o Rest(2)
                ELSE IF c = "0" /\ Char(template, d + 2) = "1" THEN group1 \o Rest(3)
                ELSE IF c = "1" THEN group1 \o Rest(2)
                ELSE "$" \o Rest(1))

InjectProperties(s, props) ==
    LET p == LabelIndex(s)
        g == LabelEnd(s, p)
        e == SkipClass(s, g + 1, WhiteSpace)
    IN IF p = 0 THEN s
       ELSE Upto(s, p - 1)
            \o GetSubstitution("$& { " \o props \o " }",
                               SubSeq(s, p, e - 1), Upto(s, p - 1), From(s, e),
                               SubSeq(s, p + 1, g))
            \o From(s, e)

(* line 93: replace(/\(\w+(:)/g, "($1")                                    *)

\* /\(\w+(:)/ matches starting at position i
VariableAt(s, i) ==
    /\ Char(s, i) = "("
    /\ SkipClass(s, i + 1, WordChars) > i + 1
    /\ Char(s, SkipClass(s, i + 1, WordChars)) = ":"

\* the replacement without its g flag: the first match only
StripFirstVariable(s) ==
    LET i == First({ j \in 1..Len(s) : VariableAt(s, j) })
    IN IF i = 0 THEN s
       ELSE Upto(s, i - 1) \o "(:" \o From(s, SkipClass(s, i + 1, WordChars) + 1)

RECURSIVE StripVariables(_)
StripVariables(s) ==
    LET i == First({ j \in 1..Len(s) : VariableAt(s, j) })
    IN IF i = 0 THEN s
       ELSE Upto(s, i - 1) \o "(:" \o StripVariables(From(s, SkipClass(s, i + 1, WordChars) + 1))

-----------------------------------------------------------------------------
(* transformCypherQuery, lines 56-96                                       *)

NoWhereError == "No WHERE clause found."

\* line 66: !whereMatch || !whereMatch[1]
TransformThrows(cypherFragment) == WhereGroup1(StripMatch(cypherFragment)) = ""

TransformInjected(cypherFragment) ==
    LET stripped == StripMatch(cypherFragment)
    IN InjectProperties(RemoveWhere(stripped), Properties(WhereGroup1(stripped)))

transformCypherQuery(cypherFragment) == StripVariables(TransformInjected(cypherFragment))

-----------------------------------------------------------------------------
(* getCypher, lines 42-51                                                  *)

SuccessForm(transformedSubQuery) == "EXISTS (\n" \o transformedSubQuery \o "\n)"

\* the block closed by the brace that opened it
FallbackFormBraces(padded) == "EXISTS {\n" \o padded \o "\n}"

FallbackForm(padded) == "EXISTS {\n" \o padded \o "\n)"

\* the rewrite called outside a try block
getCypherNoCatch(subQueryText) ==
    LET padded == padBlock(subQueryText)
    IN IF TransformThrows(padded) THEN "Error: " \o NoWhereError
       ELSE SuccessForm(transformCypherQuery(padded))

getCypher(subQueryText) ==
    LET padded == padBlock(subQueryText)
    IN IF TransformThrows(padded) THEN FallbackForm(padded)
       ELSE SuccessForm(transformCypherQuery(padded))

-----------------------------------------------------------------------------
(* The subquery behind the node.  Its clause classes are not among the     *)
(* sources; a subquery is described by the pieces of text its clauses      *)
(* render: a MATCH keyword, a pattern of nodes and relationships, a WHERE  *)
(* keyword with conditions, possibly a nested Exists node, and the text of *)
(* whatever clauses follow.                                                *)

Node(var, label, props) == [var |-> var, label |-> label, props |-> props]

NodeText(node) ==
    "(" \o node.var \o (IF node.label = "" THEN "" ELSE ":" \o node.label) \o node.props \o ")"

RECURSIVE PatternText(_, _)
PatternText(nodes, rel) ==
    IF Len(nodes) = 0 THEN ""
    ELSE IF Len(nodes) = 1 THEN NodeText(nodes[1])
    ELSE NodeText(nodes[1]) \o rel \o PatternText(Tail(nodes), rel)

Cond(lhs, op, value) == [lhs |-> lhs, op |-> op, value |-> value]

CondText(cond) == Join(cond.lhs, ".") \o cond.op \o cond.value

SubQuery(matchWord, nodes, rel, whereWord, conds, joiner, inner, tail) ==
    [matchWord |-> matchWord, nodes |-> nodes, rel |-> rel, whereWord |-> whereWord,
     conds |-> conds, joiner |-> joiner, inner |-> inner, tail |-> tail]

\* this.subQuery.getCypher(env), line 43; a nested Exists node renders by
\* its own getCypher
RenderSubQuery(sq) ==
    sq.matchWord
    \o PatternText(sq.nodes, sq.rel)
    \o (IF Len(sq.conds) = 0 /\ Len(sq.inner) = 0 THEN ""
        ELSE sq.whereWord
             \o Join([i \in 1..Len(sq.conds) |-> CondText(sq.conds[i])], sq.joiner)
             \o (IF Len(sq.inner) = 0 THEN "" ELSE getCypher(sq.inner[1])))
    \o sq.tail

-----------------------------------------------------------------------------
(* The subqueries the node is constructed with.                            *)

MaxConditions == 3

MaxNodes == 2

MaxPieces == 3

MaxOtherConditions == 2

SeqsUpTo(S, n) == UNION { [1..k -> S] : k \in 1..n }

NoNested == <<>>

\* MATCH (var:Label) WHERE var.prop = value
SingleEquality ==
    { SubQuery(mw, <<Node(v, l, "")>>, "", ww, <<Cond(<<v, k>>, " = ", val)>>, " AND ", NoNested, "") :
        mw \in {"MATCH ", "match "}, v \in {"n", "this0"}, l \in {"Movie", "~My Label~"},
        ww \in {" WHERE ", "\nWHERE ", "\nwhere "}, k \in {"title", "a"},
        val \in {"$val", "1", "'x'"} }

EqualityConds ==
    { Cond(<<"n", "a">>, " = ", "1"), Cond(<<"this0", "b", "c">>, "  =\t", "$val"),
      Cond(<<"m", "title">>, "=", "'x'") }

\* MATCH (n:Movie) WHERE c1 AND ... AND ck, bare or wrapped in parentheses
Conjunctions ==
    { SubQuery("MATCH ", <<Node("n", "Movie", "")>>, "", wrap[1], conds, j, NoNested, wrap[2]) :
        wrap \in {<<" WHERE ", "">>, <<"\nWHERE ", "">>, <<"\nWHERE (", ")">>},
        conds \in SeqsUpTo(EqualityConds, MaxConditions),
        j \in {" AND ", " and ", "  And\t"} }

NodeChoices ==
    { Node("n", "A", ""), Node("m", "~B C~", ""), Node("n", "", ""),
      Node("n", "A", " {x: 1}"), Node("p", "A:B", "") }

\* patterns of several nodes, with one equality condition
Patterns ==
    { SubQuery("MATCH ", nodes, rel, ww, <<Cond(<<"n", "a">>, " = ", "1")>>, " AND ", NoNested, "") :
        nodes \in SeqsUpTo(NodeChoices, MaxNodes), rel \in {"-[:R]->", "-[r:R]->"},
        ww \in {" WHERE ", "\nWHERE "} }

\* subqueries without a WHERE clause
NoWhere ==
    { SubQuery(mw, nodes, "-[:R]->", "", <<>>, "", NoNested, tail) :
        mw \in {"MATCH ", "match "}, nodes \in SeqsUpTo(NodeChoices, MaxNodes),
        tail \in {"", "\nRETURN n"} }

RangeConds ==
    { Cond(<<"n", "a">>, op, "5") : op \in {" < ", " > ", " >= ", " <= ", " <> "} }

\* shapes the rewrite does not support: OR, range comparisons, conditions on
\* a node that is not the anchor of a multi-hop pattern
Unsupported ==
    { SubQuery("MATCH ", <<Node("n", "A", "")>>, "", ww, conds, " OR ", NoNested, "") :
        ww \in {" WHERE ", "\nWHERE "}, conds \in { c \in SeqsUpTo(EqualityConds, MaxOtherConditions) : Len(c) > 1 } }
    \cup
    { SubQuery("MATCH ", <<Node("n", "A", "")>>, "", ww, conds, " AND ", NoNested, "") :
        ww \in {" WHERE ", "\nWHERE "},
        conds \in { c \in SeqsUpTo(EqualityConds \cup RangeConds, MaxOtherConditions) :
                        \E i \in 1..Len(c) : c[i] \in RangeConds } }
    \cup
    { SubQuery("MATCH ", <<Node("n", "A", ""), Node("m", "B", "")>>, "-[:R]->", ww, conds, " AND ", NoNested, "") :
        ww \in {" WHERE ", "\nWHERE "},
        conds \in { <<Cond(<<"m", "b">>, " = ", "2")>>,
                    <<Cond(<<"n", "a">>, " = ", "1"), Cond(<<"m", "b">>, " = ", "2")>> } }

MalformedConds ==
    { Cond(<<>>, "= ", "5"), Cond(<<"n", "a">>, "", ""), Cond(<<>>, "", ""),
      Cond(<<"n", "">>, " = ", "5"), Cond(<<"n", "a">>, " =", "") }

\* conditions that are no `alias.key = value`
Malformed ==
    { SubQuery("MATCH ", <<Node("n", "A", "")>>, "", ww, conds, " AND ", NoNested, "") :
        ww \in {" WHERE ", "\nWHERE "},
        conds \in { c \in SeqsUpTo(EqualityConds \cup MalformedConds, MaxOtherConditions) :
                        \E i \in 1..Len(c) : c[i] \in MalformedConds } }

Pieces ==
    { "MATCH (n:A)", " WHERE ", "\nwhere\t", "\n", "n.a = f(x)", "(", ")" }

RECURSIVE Concat(_)
Concat(parts) == IF Len(parts) = 0 THEN "" ELSE parts[1] \o Concat(Tail(parts))

\* arbitrary rendered text
Raw ==
    { SubQuery("", <<>>, "", "", <<>>, "", NoNested, Concat(parts)) :
        parts \in SeqsUpTo(Pieces, MaxPieces) }

InnerChoices ==
    { "MATCH (n:L) WHERE n.p = $v", "MATCH (n:L)\nWHERE n.p = $v", "MATCH (n:L)",
      "MATCH (n:L)\nRETURN n", "MATCH (n:L)\nWHERE n.p = $v\nRETURN n" }

\* a subquery whose WHERE clause holds another Exists node
Nested ==
    { SubQuery("MATCH ", <<Node("m", "M", "")>>, "", "\nWHERE ", <<>>, "", <<inner>>, tail) :
        inner \in InnerChoices, tail \in {"", "\nWITH m\nWHERE m.x = 1"} }

SubQueries ==
    SingleEquality \cup Conjunctions \cup Patterns \cup NoWhere \cup Unsupported
    \cup Malformed \cup Raw \cup Nested

-----------------------------------------------------------------------------
(* The node: constructed over a subquery, then rendered.                   *)

Init ==
    /\ subQuery \in SubQueries
    /\ pc = "constructed"
    /\ subQueryStr = ""
    /\ paddedSubQuery = ""
    /\ threw = ""
    /\ strippedMatch = ""
    /\ whereGroup = ""
    /\ properties = ""
    /\ injected = ""
    /\ transformed = ""
    /\ result = ""

\* getCypher, the try branch returns (line 47)
GetCypherSuccess ==
    LET str == RenderSubQuery(subQuery)
        padded == padBlock(str)
    IN /\ pc = "constructed"
       /\ ~TransformThrows(padded)
       /\ pc' = "rendered"
       /\ subQueryStr' = str
       /\ paddedSubQuery' = padded
       /\ threw' = ""
       /\ strippedMatch' = StripMatch(padded)
       /\ whereGroup' = WhereGroup1(StripMatch(padded))
       /\ properties' = Properties(WhereGroup1(StripMatch(padded)))
       /\ injected' = TransformInjected(padded)
       /\ transformed' = transformCypherQuery(padded)
       /\ result' = getCypher(str)
       /\ UNCHANGED subQuery

\* getCypher, transformCypherQuery throws and the catch branch returns (line 49)
GetCypherFallback ==
    LET str == RenderSubQuery(subQuery)
        padded == padBlock(str)
    IN /\ pc = "constructed"
       /\ TransformThrows(padded)
       /\ pc' = "rendered"
       /\ subQueryStr' = str
       /\ paddedSubQuery' = padded
       /\ threw' = NoWhereError
       /\ strippedMatch' = StripMatch(padded)
       /\ whereGroup' = WhereGroup1(StripMatch(padded))
       /\ result' = getCypher(str)
       /\ UNCHANGED <<subQuery, properties, injected, transformed>>

Next == GetCypherSuccess \/ GetCypherFallback

Spec == Init /\ [][Next]_vars

-----------------------------------------------------------------------------
(* What the claims speak of, written from the shape of the subquery and    *)
(* not through the operators of the rewrite.                               *)

Rendered == pc = "rendered"

Succeeded == Rendered /\ threw = ""

\* the padded white space that separates the pattern from the WHERE keyword
SpaceBeforeWhere(sq) ==
    IF Char(sq.whereWord, 1) = "\n" THEN "\n" \o IndentPrefix ELSE " "

PlainValues == {"$val", "1", "'x'", "2"}

EqualityOps == {" = ", "=", "  =\t"}

AndJoiners == {" AND ", " and ", "  And\t"}

\* alias.key = value
IsEquality(cond) ==
    /\ Len(cond.lhs) >= 2
    /\ \A i \in 1..Len(cond.lhs) : cond.lhs[i] # ""
    /\ cond.op \in EqualityOps
    /\ cond.value \in PlainValues

\* MATCH (var:Label) WHERE var.prop = value
IsSingleEquality(sq) ==
    /\ sq.matchWord # ""
    /\ Len(sq.nodes) = 1
    /\ sq.nodes[1].var # "" /\ sq.nodes[1].label # "" /\ sq.nodes[1].props = ""
    /\ Len(sq.conds) = 1
    /\ IsEquality(sq.conds[1])
    /\ Len(sq.conds[1].lhs) = 2 /\ sq.conds[1].lhs[1] = sq.nodes[1].var
    /\ sq.conds[1].op = " = "
    /\ Len(sq.inner) = 0 /\ sq.tail = ""

\* (:Label { prop: value })
InlinedNode(sq) ==
    "(:" \o sq.nodes[1].label \o " { " \o sq.conds[1].lhs[2] \o ": " \o sq.conds[1].value \o " })"

\* the keyword kw occurs somewhere in s, in any letter case
HasKeyword(s, kw) == \E i \in 1..Len(s) : KeywordAt(s, i, kw)

\* C1 as stated: the rewritten pattern keeps one level of indentation and
\* nothing follows the closing parenthesis of the node.
C1_IndentKept ==
    (Rendered /\ IsSingleEquality(subQuery))
        => result = "EXISTS (\n" \o IndentPrefix \o InlinedNode(subQuery) \o "\n)"

\* C1 amended: for MATCH (var:Label) WHERE var.prop = value the node returns
\* EXISTS ( + newline + (:Label { prop: value }) + the padded white space
\* that stood before WHERE + newline + ): the indentation in front of the
\* pattern goes with MATCH, and neither keyword remains.
C1_SingleEquality ==
    (Rendered /\ IsSingleEquality(subQuery))
        => /\ result = "EXISTS (\n" \o InlinedNode(subQuery) \o SpaceBeforeWhere(subQuery) \o "\n)"
           /\ ~HasKeyword(result, "MATCH")
           /\ ~HasKeyword(result, "WHERE")

C1_Witness ==
    /\ Succeeded
    /\ IsSingleEquality(subQuery)
    /\ subQueryStr = "MATCH (this0:Movie)\nWHERE this0.title = $val"
    /\ result = "EXISTS (\n(:Movie { title: $val })\n\t\n)"

\* C2: a subquery whose text holds no WHERE keyword renders as EXISTS { +
\* newline + the indented text, MATCH line and variables untouched, +
\* newline + ).
C2_NoWhereFallback ==
    (Rendered /\ ~HasKeyword(subQueryStr, "WHERE"))
        => /\ threw = NoWhereError
           /\ result = "EXISTS {\n" \o paddedSubQuery \o "\n)"
           /\ (Len(subQuery.nodes) > 0 /\ Len(subQuery.inner) = 0) =>
                paddedSubQuery = IndentPrefix \o subQuery.matchWord
                                    \o PatternText(subQuery.nodes, subQuery.rel)
                                    \o (IF subQuery.tail = "" THEN ""
                                        ELSE "\n" \o IndentPrefix \o From(subQuery.tail, 2))

C2_Witness ==
    /\ Rendered
    /\ subQueryStr = "MATCH (n:A)-[:R]->(m:~B C~)"
    /\ result = "EXISTS {\n\tMATCH (n:A)-[:R]->(m:~B C~)\n)"

\* C3: every render returns, in the success form around the rewritten text
\* or in the fallback form around the indented text, and the one failure of
\* the rewrite is the missing WHERE clause.
C3_AlwaysReturns ==
    Rendered =>
        /\ threw \in {"", NoWhereError}
        /\ (threw = "") => result = "EXISTS (\n" \o transformed \o "\n)"
        /\ (threw # "") => result = "EXISTS {\n" \o paddedSubQuery \o "\n)"

C3_Witness ==
    /\ Rendered
    /\ threw = NoWhereError
    /\ HasKeyword(subQueryStr, "WHERE")
    /\ whereGroup = ""

\* k >= 1 equalities joined by AND, bare or wrapped in one pair of parentheses
IsConjunction(sq) ==
    /\ sq.matchWord # ""
    /\ Len(sq.nodes) >= 1
    /\ Len(sq.conds) >= 1
    /\ \A i \in 1..Len(sq.conds) : IsEquality(sq.conds[i])
    /\ (Len(sq.conds) > 1) => sq.joiner \in AndJoiners
    /\ Len(sq.inner) = 0
    /\ sq.tail = (IF Char(sq.whereWord, Len(sq.whereWord)) = "(" THEN ")" ELSE "")

\* key: value of one equality, the key being the last segment of its left side
EntryOf(cond) == cond.lhs[Len(cond.lhs)] \o ": " \o cond.value

PropertiesOf(conds) == Join([i \in 1..Len(conds) |-> EntryOf(conds[i])], ", ")

C5_UnsupportedFallsBack ==
    (Rendered /\ subQuery \in Unsupported)
        => result = "EXISTS {\n" \o paddedSubQuery \o "\n)"

\* a word character
IsWord(c) == c \in WordChars

\* a node reference (word: is left in s
HasVariableRef(s) ==
    \E i, j \in 1..Len(s) :
        /\ i + 1 < j
        /\ Char(s, i) = "("
        /\ Char(s, j) = ":"
        /\ \A k \in (i + 1)..(j - 1) : IsWord(Char(s, k))

\* a pattern of nodes with one equality condition
IsPatternQuery(sq) ==
    /\ sq.matchWord # ""
    /\ Len(sq.nodes) >= 1
    /\ Len(sq.conds) = 1
    /\ IsEquality(sq.conds[1])
    /\ Len(sq.inner) = 0 /\ sq.tail = ""

\* the node's label stands directly before its closing parenthesis
LabelBeforeParen(node) == node.label # "" /\ node.props = ""

\* the pattern with the text ins put into the first node whose label stands
\* before its closing parenthesis; with strip, labelled nodes lose their variable
RECURSIVE PatternWith(_, _, _, _)
PatternWith(nodes, rel, ins, strip) ==
    LET node == nodes[1]
        here == ins # "" /\ LabelBeforeParen(node)
        text == "(" \o (IF strip /\ node.label # "" THEN "" ELSE node.var)
                    \o (IF node.label = "" THEN "" ELSE ":" \o node.label)
                    \o node.props \o (IF here THEN ins ELSE "") \o ")"
    IN IF Len(nodes) = 0 THEN ""
       ELSE IF Len(nodes) = 1 THEN text
       ELSE text \o rel \o PatternWith(Tail(nodes), rel, IF here THEN "" ELSE ins, strip)

PropertyMap(sq) == " { " \o PropertiesOf(sq.conds) \o " }"

\* C6: on the success path no (word: is left in the rewritten text; every
\* labelled node of the pattern has lost its variable, and labels, colons,
\* relationships and unlabelled nodes stand as they were.
C6_VariablesStripped ==
    Succeeded
        => /\ ~HasVariableRef(transformed)
           /\ IsPatternQuery(subQuery) =>
                transformed = PatternWith(subQuery.nodes, subQuery.rel, PropertyMap(subQuery), TRUE)
                                \o SpaceBeforeWhere(subQuery)

C6_Witness ==
    /\ Succeeded
    /\ subQueryStr = "MATCH (n:A {x: 1})-[r:R]->(m:~B C~)\nWHERE n.a = 1"
    /\ transformed = "(:A {x: 1})-[r:R]->(:~B C~ { a: 1 })\n\t"

\* C9: on the success path the property map goes to one place, behind the
\* first label that stands directly before a closing parenthesis; later
\* labels get none, and a pattern without such a label gets none and the
\* rewrite succeeds all the same.
C9_SingleInjection ==
    (Rendered /\ IsPatternQuery(subQuery))
        => /\ threw = ""
           /\ injected = PatternWith(subQuery.nodes, subQuery.rel, PropertyMap(subQuery), FALSE)
                            \o SpaceBeforeWhere(subQuery)

C9_Witness ==
    /\ Succeeded
    /\ subQueryStr = "MATCH (n:A)-[r:R]->(p:A:B) WHERE n.a = 1"
    /\ injected = "(n:A { a: 1 })-[r:R]->(p:A:B) "

\* conditions of C10: equalities, an equality whose left side is empty, a
\* condition without an equals sign
KeylessCond == Cond(<<>>, "= ", "5")

ValuelessCond == Cond(<<"n", "a">>, "", "")

\* what C10 has a condition contribute to the join
ClaimedEntry(cond) ==
    IF cond = KeylessCond THEN ""
    ELSE IF cond = ValuelessCond THEN "a: "
    ELSE EntryOf(cond)

\* C10 as stated: a condition without a usable key contributes the empty
\* string to the join and shows as a stray comma only; a condition without
\* an equals sign gets the empty value; the rewrite does not fail.
C10_KeylessContributesNothing ==
    (/\ Rendered
     /\ subQuery \in Malformed
     /\ Len(subQuery.conds) = 2
     /\ subQuery.conds[1] \in EqualityConds
     /\ subQuery.conds[2] \in {KeylessCond, ValuelessCond})
        => /\ threw = ""
           /\ properties = EntryOf(subQuery.conds[1]) \o ", " \o ClaimedEntry(subQuery.conds[2])

RECURSIVE Lines(_)
Lines(s) ==
    LET nl == IndexOf(s, 1, "\n")
    IN IF nl > Len(s) THEN <<s>>
       ELSE <<Upto(s, nl - 1)>> \o Lines(From(s, nl + 1))

StartsWith(s, prefix) == Len(s) >= Len(prefix) /\ Upto(s, Len(prefix)) = prefix

IsNested(sq) == Len(sq.inner) = 1

\* In the result of a node over MATCH (m:M) WHERE <inner node>, line 3 opens
\* the inner node and the lines from 4 up to its closing line are its body.
InnerOpener(res) == Lines(res)[3]

InnerCloser(res) ==
    First({ k \in 4..Len(Lines(res)) : Lines(res)[k] = IndentPrefix \o ")" })

InnerBody(res) == [k \in 1..(InnerCloser(res) - 4) |-> Lines(res)[k + 3]]

InnerFellBack(res) == Char(InnerOpener(res), Len(InnerOpener(res))) = "{"

TwoLevels == IndentPrefix \o IndentPrefix

\* C7 as stated: every line of the inner pattern carries two levels of
\* indentation in the result of the outer node, whatever forms the two
\* nodes take.
C7_TwoLevelsAlways ==
    (Rendered /\ IsNested(subQuery))
        => \A k \in 1..Len(InnerBody(result)) : StartsWith(InnerBody(result)[k], TwoLevels)

\* C7 amended: when the inner node takes the fallback form, every line of
\* its subquery carries two levels of indentation in the result of the outer
\* node; when it takes the success form, its rewritten pattern carries one
\* level, that of the outer node, its own having gone with MATCH.
C7_NestedIndentation ==
    (Rendered /\ IsNested(subQuery))
        => LET body == InnerBody(result)
               inner == Lines(subQuery.inner[1])
           IN /\ Len(body) >= 1
              /\ InnerFellBack(result) =>
                    /\ Len(body) = Len(inner)
                    /\ \A k \in 1..Len(body) : StartsWith(body[k], TwoLevels)
                    /\ (threw # "") =>
                            \A k \in 1..Len(body) : body[k] = TwoLevels \o inner[k]
              /\ ~InnerFellBack(result) =>
                    /\ StartsWith(body[1], IndentPrefix \o "(:L { p: $v })")
                    /\ \A k \in 2..Len(body) : body[k] = TwoLevels

C7_Witness ==
    /\ Rendered
    /\ IsNested(subQuery)
    /\ threw # ""
    /\ result = "EXISTS {\n\tMATCH (m:M)\n\tWHERE EXISTS (\n\t(:L { p: $v })\n\t\t\n\t)\n)"

\* the regular expression of the WHERE clause can match with the keyword at
\* position p: white space behind the keyword, and no line break from the
\* end of that white space to the end of the text
ClauseAt(s, p) ==
    /\ KeywordAt(s, p, "WHERE")
    /\ \E e \in (p + Len("WHERE") + 1)..(Len(s) + 1) :
        /\ \A i \in (p + Len("WHERE"))..(e - 1) : Char(s, i) \in WhiteSpace
        /\ Char(s, e) \notin WhiteSpace
        /\ \A i \in e..Len(s) : Char(s, i) \notin LineTerminators

\* the text behind the keyword at p and its white space
ConditionText(s, p) ==
    LET e == First({ i \in (p + Len("WHERE"))..(Len(s) + 1) : Char(s, i) \notin WhiteSpace })
    IN From(s, e)

WithoutLeadingParen(t) == IF Char(t, 1) = "(" THEN From(t, 2) ELSE t

WithoutTrailingParen(t) == IF Char(t, Len(t)) = ")" THEN Upto(t, Len(t) - 1) ELSE t

\* C8 as stated: wherever WHERE is followed by white space and condition
\* text, on one line or several, the rewrite does not fail and captures all
\* the text up to the end, less one pair of parentheses when the pair wraps
\* it; it fails only without such a WHERE clause.
C8_CapturesToTheEnd ==
    Rendered
        => LET s == strippedMatch
               P == { p \in 1..Len(s) :
                        /\ KeywordAt(s, p, "WHERE")
                        /\ Char(s, p + Len("WHERE")) \in WhiteSpace
                        /\ ConditionText(s, p) # "" }
               t == ConditionText(s, First(P))
           IN (P # {}) =>
                    /\ threw = ""
                    /\ whereGroup = WhereCaptureWrapped(t)

\* C8 amended: the rewrite takes the first WHERE that is followed by white
\* space and then by text without a line break up to the end of the
\* fragment; the captured condition is that text less one opening
\* parenthesis at its start and less one closing parenthesis at its end,
\* each removed whether or not the other is there; the rewrite fails when
\* there is no such WHERE or when the captured condition is empty.
C8_CaptureOnLastLine ==
    Rendered
        => LET s == strippedMatch
               P == { p \in 1..Len(s) : ClauseAt(s, p) }
               cap == WithoutTrailingParen(WithoutLeadingParen(ConditionText(s, First(P))))
           IN IF P = {} \/ cap = ""
              THEN threw = NoWhereError
              ELSE threw = "" /\ whereGroup = cap

C8_Witness ==
    /\ Succeeded
    /\ subQueryStr = "MATCH (n:A) WHERE n.a = f(x)"
    /\ whereGroup = "n.a = f(x"

=============================================================================
